---- MODULE Spec2Model ----
(***************************************************************************)
(* Model of the AWS KMS signer for ethers v6 (src/src/AwsKmsSigner.ts and  *)
(* the crypto helpers in src/src/types.ts).                                *)
(*                                                                         *)
(* One signer instance, one KMS key.  Every async method is cut at its     *)
(* awaits: the code between two awaits runs atomically on the JavaScript   *)
(* event loop and is one action.  The KMS service and the ethers           *)
(* primitives (keccak256, getAddress checksum, recoverAddress) are         *)
(* collaborators; they are modelled on a small prime-order group in which  *)
(* ECDSA signing and public-key recovery obey the same algebra as on       *)
(* secp256k1 (TLC integers are 32 bits wide, the real order is 256 bits).  *)
(* Strings are sequences of one-character strings, buffers are sequences   *)
(* of numbers.                                                             *)
(***************************************************************************)
EXTENDS Integers, Sequences, FiniteSets, TLC

------------------------------------------------------------------------------
(* Bounds *)

\* half of the order of the modelled curve group (the group order is 2*HalfOrder+1)
HalfOrder == 2
\* number of calls on the signer that can be in flight at the same time
MaxCalls == 2
\* digests (32-byte hashes in the code) are the numbers 1..MaxDigest
MaxDigest == 2
\* the KMS key is one of the private scalars 1..MaxKey
MaxKey == 2
\* the helpers of types.ts are applied to signatures whose r is in 1..MaxR
MaxR == 20

Calls == 1..MaxCalls
Digests == 1..MaxDigest
Keys == 1..MaxKey

------------------------------------------------------------------------------
(* Strings and hex *)

LowerHex == <<"0","1","2","3","4","5","6","7","8","9","a","b","c","d","e","f">>
UpperHex == <<"0","1","2","3","4","5","6","7","8","9","A","B","C","D","E","F">>

\* the lower-case form of each upper-case hex letter
LowerCaseOf == [c \in {UpperHex[i] : i \in 11..16} |->
                  LowerHex[CHOOSE i \in 11..16 : UpperHex[i] = c]]

\* String.prototype.toLowerCase on one character
toLowerCaseChar(c) == IF c \in DOMAIN LowerCaseOf THEN LowerCaseOf[c] ELSE c

toLowerCase(str) == [i \in 1..Len(str) |-> toLowerCaseChar(str[i])]

\* the value of each hex digit, either case
HexValueOf == [c \in {LowerHex[i] : i \in 1..16} \cup {UpperHex[i] : i \in 1..16} |->
                 (CHOOSE i \in 1..16 : LowerHex[i] = c \/ UpperHex[i] = c) - 1]

HexVal(c) == HexValueOf[c]

\* bigint.toString(16)
RECURSIVE BigIntToString16(_)
BigIntToString16(v) ==
  IF v < 16 THEN <<LowerHex[v + 1]>>
  ELSE BigIntToString16(v \div 16) \o <<LowerHex[(v % 16) + 1]>>

\* toHex: '0x' + hex, one '0' added in front when the digit count is odd
toHex(bigIntValue) ==
  LET hex == BigIntToString16(bigIntValue)
  IN  <<"0", "x">> \o (IF Len(hex) % 2 # 0 THEN <<"0">> \o hex ELSE hex)

\* numeric value of a string of hex digits (no prefix)
RECURSIVE HexDigitsValue(_)
HexDigitsValue(digits) ==
  IF digits = <<>> THEN 0
  ELSE 16 * HexDigitsValue(SubSeq(digits, 1, Len(digits) - 1)) + HexVal(digits[Len(digits)])

\* how ethers reads a 0x-prefixed hex string as a number
BigIntFromHex(hex) == HexDigitsValue(SubSeq(hex, 3, Len(hex)))

------------------------------------------------------------------------------
(* The curve group and the collaborators' primitives *)

\* order of the curve group (secp256k1N in getRsSignature), scaled to the model
secp256k1N == 2 * HalfOrder + 1
secp256k1halfN == secp256k1N \div 2

\* inverse modulo the group order
InvN(a) == CHOOSE x \in 1..(secp256k1N - 1) : (a * x) % secp256k1N = 1

\* the group is generated by G = 1: the public point of private scalar d is d*G
PublicKeyPoint(d) == d % secp256k1N

\* a point R and its negation share one x coordinate and differ in the parity of y
XCoord(R) == IF R <= secp256k1halfN THEN R ELSE secp256k1N - R

\* ECDSA signature of digest z under private scalar d with nonce k (what KMS Sign computes)
EcdsaSign(d, z, k) ==
  [r |-> XCoord(k), s |-> (InvN(k) * (z + XCoord(k) * d)) % secp256k1N]

\* public-key recovery: Q = r^-1 (s*R - z*G), R the point of x coordinate r and parity recid
RecoverPublicKey(z, r, s, recid) ==
  LET R == IF recid = 0 THEN r % secp256k1N ELSE (secp256k1N - (r % secp256k1N)) % secp256k1N
  IN  (InvN(r % secp256k1N) * (s * R + (secp256k1N - (z % secp256k1N)))) % secp256k1N

\* keccak256 of a byte sequence, as a string of 4 hex digits (a 2-byte hash)
RECURSIVE Absorb(_)
Absorb(bytes) ==
  IF bytes = <<>> THEN 0
  ELSE (31 * Absorb(SubSeq(bytes, 1, Len(bytes) - 1)) + bytes[Len(bytes)] + 7) % 65536

keccak256(bytes) ==
  LET h == (2785 * Absorb(bytes) + 226) % 65536
  IN  << LowerHex[(h \div 4096) + 1], LowerHex[((h \div 256) % 16) + 1],
         LowerHex[((h \div 16) % 16) + 1], LowerHex[(h % 16) + 1] >>

\* number of hex digits of an address (40 in the code)
AddressHexits == 2

\* code of a character, as hashed by the checksum
CharCode(c) ==
  IF c = "x" THEN 120
  ELSE IF HexVal(c) < 10 THEN 48 + HexVal(c)
  ELSE IF c \in DOMAIN LowerCaseOf THEN 55 + HexVal(c) ELSE 87 + HexVal(c)

\* ethers getAddress: the checksummed form of an address; a letter is upper case
\* exactly when the matching digit of the hash of the lower-case digits is >= 8
ChecksumAddress(addr) ==
  LET chars == SubSeq(toLowerCase(addr), 3, Len(addr))
      hashed == keccak256([i \in 1..Len(chars) |-> CharCode(chars[i])])
  IN  <<"0", "x">> \o
      [i \in 1..Len(chars) |->
         IF HexVal(hashed[i]) >= 8 THEN UpperHex[HexVal(chars[i]) + 1] ELSE chars[i]]

\* address of a public point: the last hexits of the hash of its coordinates, checksummed
computeAddress(point) ==
  LET hash == keccak256(<<point>>)
  IN  ChecksumAddress(<<"0", "x">> \o SubSeq(hash, Len(hash) - AddressHexits + 1, Len(hash)))

\* ethers recoverAddress(digest, {r, s, v}): v = 27, 28 is recovery index 0, 1
recoverAddress(msg, r, s, v) ==
  computeAddress(RecoverPublicKey(msg, BigIntFromHex(r), BigIntFromHex(s), v - 27))

------------------------------------------------------------------------------
(* src/src/types.ts: decoding, address derivation, normalisation, recovery id *)

\* DER of an ECDSA signature: SEQUENCE { INTEGER r, INTEGER s }
EncodeEcdsaSig(r, s) == <<48, 2, r, 2, s>>

\* DER of a public key: SEQUENCE { SEQUENCE { OID, OID }, BIT STRING 04 || coordinates }
EncodeEcdsaPubKey(point) == <<48, 48, 6, 6, 3, 4, point>>

\* decodeEcdsaSig: throws on a malformed structure, else the two integers
decodeEcdsaSig(signature) ==
  IF /\ Len(signature) = 5
     /\ signature[1] = 48
     /\ signature[2] = 2
     /\ signature[4] = 2
  THEN [threw |-> FALSE, r |-> signature[3], s |-> signature[5]]
  ELSE [threw |-> TRUE, r |-> 0, s |-> 0]

\* decodeEcdsaPubKey: throws on a malformed structure, else the bit string's bytes
decodeEcdsaPubKey(publicKey) ==
  IF /\ Len(publicKey) = 7
     /\ publicKey[1] = 48
     /\ publicKey[2] = 48
     /\ publicKey[3] = 6
     /\ publicKey[4] = 6
     /\ publicKey[5] = 3
  THEN [threw |-> FALSE, pubKey |-> SubSeq(publicKey, 6, 7)]
  ELSE [threw |-> TRUE, pubKey |-> <<>>]

\* getEthAddress: drop the 04 prefix, hash, keep the last hexits, checksum
getEthAddress(publicKeyDer) ==
  LET decoded == decodeEcdsaPubKey(publicKeyDer)
      decodedPublicKey == decoded.pubKey
      noPrefixPublicKey == SubSeq(decodedPublicKey, 2, Len(decodedPublicKey))
      hash == keccak256(noPrefixPublicKey)
      addr == <<"0", "x">> \o SubSeq(hash, Len(hash) - AddressHexits + 1, Len(hash))
  IN  IF decoded.threw
      THEN [threw |-> TRUE, address |-> <<>>]
      ELSE [threw |-> FALSE, address |-> ChecksumAddress(addr)]

\* faulty variant of getRsSignature: flips s already at half of the order
getRsSignatureFlipAtHalf(signature) ==
  LET decoded == decodeEcdsaSig(signature)
      r == decoded.r
      s == decoded.s
  IN  IF decoded.threw
      THEN [threw |-> TRUE, r |-> <<>>, s |-> <<>>]
      ELSE [threw |-> FALSE,
            r |-> toHex(r),
            s |-> toHex(IF s >= secp256k1halfN THEN secp256k1N - s ELSE s)]

\* getRsSignature: decode, flip s when it is above half of the order, format both as hex
getRsSignature(signature) ==
  LET decoded == decodeEcdsaSig(signature)
      r == decoded.r
      s == decoded.s
  IN  IF decoded.threw
      THEN [threw |-> TRUE, r |-> <<>>, s |-> <<>>]
      ELSE [threw |-> FALSE,
            r |-> toHex(r),
            s |-> toHex(IF s > secp256k1halfN THEN secp256k1N - s ELSE s)]

\* faulty variant of isCorrectV: accepts a candidate whatever it recovers
isCorrectVAnyAddress(expectedEthAddr, msg, r, s, v) == TRUE

\* isCorrectV: does candidate v recover the expected address, ignoring case
isCorrectV(expectedEthAddr, msg, r, s, v) ==
  LET recoveredAddress == recoverAddress(msg, r, s, v)
  IN  toLowerCase(recoveredAddress) = toLowerCase(expectedEthAddr)

\* faulty variant of determineCorrectV: falls back to 28 when nothing matches
determineCorrectVDefault28(msg, r, s, expectedEthAddr) ==
  IF isCorrectV(expectedEthAddr, msg, r, s, 27) THEN [threw |-> FALSE, v |-> 27]
  ELSE [threw |-> FALSE, v |-> 28]

\* determineCorrectV: 27 if it recovers the expected address, else 28 if it does, else throw
determineCorrectV(msg, r, s, expectedEthAddr) ==
  IF isCorrectV(expectedEthAddr, msg, r, s, 27) THEN [threw |-> FALSE, v |-> 27]
  ELSE IF isCorrectV(expectedEthAddr, msg, r, s, 28) THEN [threw |-> FALSE, v |-> 28]
  ELSE [threw |-> TRUE, v |-> 0]

\* ethers Signature.from({r, s, v}).serialized: r and s padded to a fixed width, then v
ZeroPad(hex, width) ==
  LET digits == SubSeq(hex, 3, Len(hex))
  IN  [i \in 1..(width - Len(digits)) |-> "0"] \o digits

SignatureSerialized(r, s, v) ==
  <<"0", "x">> \o ZeroPad(r, 2) \o ZeroPad(s, 2) \o (IF v = 27 THEN <<"1", "b">> ELSE <<"1", "c">>)

------------------------------------------------------------------------------
(* The KMS service *)

\* a response of client.send: a rejection, or a resolved output whose field
\* (PublicKey, Signature) is absent or holds bytes
KmsError == [kind |-> "error", bytes |-> <<>>]
KmsAbsent == [kind |-> "absent", bytes |-> <<>>]
KmsBytes(b) == [kind |-> "bytes", bytes |-> b]

\* drop the last byte of a blob
Truncated(blob) == SubSeq(blob, 1, Len(blob) - 1)

\* responses to GetPublicKeyCommand for the key of private scalar d
GetPublicKeyResponses(d) ==
  { KmsError, KmsAbsent, KmsBytes(<<>>),
    KmsBytes(Truncated(EncodeEcdsaPubKey(PublicKeyPoint(d)))),
    KmsBytes(EncodeEcdsaPubKey(PublicKeyPoint(d))) }

\* responses to SignCommand: r is the x coordinate of some curve point and s
\* any non-zero scalar, so every signature of the key over the digest is among
\* them, and so are signatures of other keys and of other digests
SignResponses ==
  { KmsError, KmsAbsent, KmsBytes(<<>>), KmsBytes(Truncated(EncodeEcdsaSig(1, 1))) }
  \cup { KmsBytes(EncodeEcdsaSig(r, s)) :
           r \in 1..secp256k1halfN, s \in 1..(secp256k1N - 1) }

------------------------------------------------------------------------------
(* src/src/AwsKmsSigner.ts *)

ErrGetPublicKey == "GetPublicKeyCommand rejected"
ErrSign == "SignCommand rejected"
ErrNoPublicKey == "Could not get Public Key from AWS KMS"
ErrNoSignature == "Could not get signature from AWS KMS"
ErrDecode == "asn1 decode error"
ErrNoV == "Could not determine correct v value for signature"
ErrFromMismatch == "Transaction from address mismatch"
ErrTransaction == "Transaction.from rejected"

\* the address field before it is set (undefined)
NoAddress == <<>>

VARIABLES
  address,        \* this.address, the memoized address
  keyId,          \* the private scalar of the KMS key this.keyId names
  calls,          \* the calls on the signer: the position and the locals of each
  addressWrites,  \* how many times this.address has been assigned
  pure            \* argument and result of a helper of types.ts applied on its own

vars == <<address, keyId, calls, addressWrites, pure>>

IdleCall ==
  [ op |-> "idle",          \* the public method called
    pc |-> "idle",          \* idle, awaitAddress, awaitSign, done, failed
    digest |-> 0,           \* the digest to sign
    from |-> NoAddress,     \* txRequest.from, NoAddress when not given
    sign |-> "none",        \* the promise of _rawKmsSign: none, pending, ok, failed
    addr |-> "none",        \* the promise of getAddress: none, pending, ok, failed
    r |-> <<>>,             \* r of _rawKmsSign's result
    s |-> <<>>,             \* s of _rawKmsSign's result
    ethAddress |-> NoAddress, \* the result of getAddress
    v |-> 0,                \* the v determineCorrectV returned
    ret |-> <<>>,           \* the serialized signature returned
    error |-> "",           \* the error the call failed with
    signError |-> "",       \* the error _rawKmsSign rejected with
    addrError |-> "",       \* the error getAddress rejected with
    nSign |-> 0,            \* SignCommands sent by the call
    nGetPk |-> 0,           \* GetPublicKeyCommands sent by the call
    sigDecoded |-> FALSE,   \* was getRsSignature called
    pkDecoded |-> FALSE ]   \* was getEthAddress called

PureIdle ==
  [ fn |-> "none", done |-> FALSE, sigR |-> 0, sigS |-> 0, msg |-> 0,
    r |-> <<>>, s |-> <<>>, expected |-> NoAddress, threw |-> FALSE, v |-> 0 ]

Init ==
  /\ address = NoAddress
  /\ keyId \in Keys
  /\ calls = [i \in Calls |-> IdleCall]
  /\ addressWrites = 0
  /\ pure = PureIdle

\* faulty variant of InvokeGetAddress: never looks at the memoized address
InvokeGetAddressNoCache(c) ==
  [c EXCEPT !.addr = "pending", !.nGetPk = @ + 1]

\* faulty variant of InvokeGetAddress: returns the memoized address in lower case
InvokeGetAddressLowerCase(c) ==
  IF address # NoAddress
  THEN [c EXCEPT !.addr = "ok", !.ethAddress = toLowerCase(address)]
  ELSE [c EXCEPT !.addr = "pending", !.nGetPk = @ + 1]

\* the synchronous part of getAddress() (lines 80-87): return the memoized
\* address, or send GetPublicKeyCommand and wait
InvokeGetAddress(c) ==
  IF address # NoAddress
  THEN [c EXCEPT !.addr = "ok", !.ethAddress = address]
  ELSE [c EXCEPT !.addr = "pending", !.nGetPk = @ + 1]

\* the rest of getAddress() (lines 85-94), run when the response arrives
GetAddressResume(resp) ==
  IF resp.kind = "error"
  THEN [threw |-> TRUE, error |-> ErrGetPublicKey, address |-> NoAddress, decoded |-> FALSE]
  ELSE IF resp.kind = "absent"
  THEN [threw |-> TRUE, error |-> ErrNoPublicKey, address |-> NoAddress, decoded |-> FALSE]
  ELSE LET derived == getEthAddress(resp.bytes)
       IN  IF derived.threw
           THEN [threw |-> TRUE, error |-> ErrDecode, address |-> NoAddress, decoded |-> TRUE]
           ELSE [threw |-> FALSE, error |-> "", address |-> derived.address, decoded |-> TRUE]

\* the rest of _rawKmsSign (lines 165-178), run when the response arrives
RawKmsSignResume(resp) ==
  IF resp.kind = "error"
  THEN [threw |-> TRUE, error |-> ErrSign, r |-> <<>>, s |-> <<>>, decoded |-> FALSE]
  ELSE IF resp.kind = "absent"
  THEN [threw |-> TRUE, error |-> ErrNoSignature, r |-> <<>>, s |-> <<>>, decoded |-> FALSE]
  ELSE LET rs == getRsSignature(resp.bytes)
       IN  IF rs.threw
           THEN [threw |-> TRUE, error |-> ErrDecode, r |-> <<>>, s |-> <<>>, decoded |-> TRUE]
           ELSE [threw |-> FALSE, error |-> "", r |-> rs.r, s |-> rs.s, decoded |-> TRUE]

\* faulty variant of SignDigestStart: sends the SignCommand without calling getAddress()
SignDigestStartSignOnly(c, digestHex) ==
  [c EXCEPT !.pc = "awaitSign", !.digest = digestHex, !.sign = "pending", !.nSign = @ + 1]

\* the synchronous part of _signDigest (lines 151-155): _rawKmsSign sends the
\* SignCommand, then getAddress() is called, then both are awaited together
SignDigestStart(c, digestHex) ==
  InvokeGetAddress([c EXCEPT !.pc = "awaitSign", !.digest = digestHex,
                             !.sign = "pending", !.nSign = @ + 1])

\* the values txRequest.from takes: not given, or the address of a key (the
\* signer's or another one) in checksummed or in lower-case spelling
FromInputs ==
  {NoAddress}
  \cup { computeAddress(PublicKeyPoint(k)) : k \in 1..(MaxKey + 1) }
  \cup { toLowerCase(computeAddress(PublicKeyPoint(k))) : k \in 1..(MaxKey + 1) }

\* getAddress() called by the user (lines 80-87)
GetAddressCall(i) ==
  /\ calls[i].pc = "idle"
  /\ LET c == InvokeGetAddress([calls[i] EXCEPT !.op = "getAddress", !.pc = "awaitAddress"])
     IN  calls' = [calls EXCEPT ![i] = IF c.addr = "ok" THEN [c EXCEPT !.pc = "done"] ELSE c]
  /\ UNCHANGED <<address, keyId, addressWrites, pure>>

\* signMessage(message) (lines 130-133); digest is hashMessage(message)
SignMessageCall(i, digest) ==
  /\ calls[i].pc = "idle"
  /\ calls' = [calls EXCEPT ![i] = SignDigestStart([@ EXCEPT !.op = "signMessage"], digest)]
  /\ UNCHANGED <<address, keyId, addressWrites, pure>>

\* signTypedData(domain, types, value) (lines 138-145); digest is TypedDataEncoder.hash(...)
SignTypedDataCall(i, digest) ==
  /\ calls[i].pc = "idle"
  /\ calls' = [calls EXCEPT ![i] = SignDigestStart([@ EXCEPT !.op = "signTypedData"], digest)]
  /\ UNCHANGED <<address, keyId, addressWrites, pure>>

\* signTransaction(txRequest) up to its first await (lines 100-104)
SignTransactionCall(i, from) ==
  /\ calls[i].pc = "idle"
  /\ calls' = [calls EXCEPT ![i] =
       InvokeGetAddress([@ EXCEPT !.op = "signTransaction", !.pc = "awaitAddress",
                                  !.from = from])]
  /\ UNCHANGED <<address, keyId, addressWrites, pure>>

\* faulty variant of GetPublicKeyResponseIs: assigns this.address before the
\* checks, so a failed fetch leaves the field unset
GetPublicKeyResponseAssignsFirst(i, resp) ==
  LET c == calls[i]
      out == GetAddressResume(resp)
      settled == [c EXCEPT !.addr = IF out.threw THEN "failed" ELSE "ok",
                           !.addrError = out.error,
                           !.ethAddress = out.address,
                           !.pkDecoded = out.decoded]
  IN  /\ c.addr = "pending"
      /\ address' = out.address
      /\ addressWrites' = IF out.threw THEN addressWrites ELSE addressWrites + 1
      /\ calls' = [calls EXCEPT ![i] =
           IF c.pc \notin {"awaitAddress", "awaitSign"} THEN settled
           ELSE IF out.threw THEN [settled EXCEPT !.pc = "failed", !.error = out.error]
           ELSE IF c.op = "getAddress" THEN [settled EXCEPT !.pc = "done"]
           ELSE settled]
      /\ UNCHANGED <<keyId, pure>>

\* the response to a GetPublicKeyCommand arrives: getAddress() runs to its end
\* (lines 85-94) and the promise awaiting it settles
GetPublicKeyResponseIs(i, resp) ==
  LET c == calls[i]
      out == GetAddressResume(resp)
      settled == [c EXCEPT !.addr = IF out.threw THEN "failed" ELSE "ok",
                           !.addrError = out.error,
                           !.ethAddress = out.address,
                           !.pkDecoded = out.decoded]
  IN  /\ c.addr = "pending"
      /\ address' = IF out.threw THEN address ELSE out.address
      /\ addressWrites' = IF out.threw THEN addressWrites ELSE addressWrites + 1
      /\ calls' = [calls EXCEPT ![i] =
           IF c.pc \notin {"awaitAddress", "awaitSign"} THEN settled
           ELSE IF out.threw THEN [settled EXCEPT !.pc = "failed", !.error = out.error]
           ELSE IF c.op = "getAddress" THEN [settled EXCEPT !.pc = "done"]
           ELSE settled]
      /\ UNCHANGED <<keyId, pure>>

GetPublicKeyResponse(i) ==
  \E resp \in GetPublicKeyResponses(keyId) : GetPublicKeyResponseIs(i, resp)

\* faulty variant of SignResponseIs: sends the SignCommand again when it was rejected
SignResponseRetries(i, resp) ==
  LET c == calls[i]
      out == RawKmsSignResume(resp)
      settled == [c EXCEPT !.sign = IF out.threw THEN "failed" ELSE "ok",
                           !.signError = out.error,
                           !.r = out.r,
                           !.s = out.s,
                           !.sigDecoded = out.decoded]
  IN  /\ c.sign = "pending"
      /\ calls' = [calls EXCEPT ![i] =
           IF resp.kind = "error" THEN [c EXCEPT !.nSign = @ + 1]
           ELSE IF out.threw /\ c.pc = "awaitSign"
           THEN [settled EXCEPT !.pc = "failed", !.error = out.error]
           ELSE settled]
      /\ UNCHANGED <<address, keyId, addressWrites, pure>>

\* the response to a SignCommand arrives: _rawKmsSign runs to its end (lines
\* 165-178) and the promise awaiting it settles
SignResponseIs(i, resp) ==
  LET c == calls[i]
      out == RawKmsSignResume(resp)
      settled == [c EXCEPT !.sign = IF out.threw THEN "failed" ELSE "ok",
                           !.signError = out.error,
                           !.r = out.r,
                           !.s = out.s,
                           !.sigDecoded = out.decoded]
  IN  /\ c.sign = "pending"
      /\ calls' = [calls EXCEPT ![i] =
           IF out.threw /\ c.pc = "awaitSign"
           THEN [settled EXCEPT !.pc = "failed", !.error = out.error]
           ELSE settled]
      /\ UNCHANGED <<address, keyId, addressWrites, pure>>

SignResponse(i) ==
  \E resp \in SignResponses : SignResponseIs(i, resp)

\* faulty variant of SignTransactionResume: signs without the from check
SignTransactionResumeNoCheck(i, txValid, unsignedHash) ==
  LET c == calls[i]
  IN  /\ c.op = "signTransaction"
      /\ c.pc = "awaitAddress"
      /\ c.addr = "ok"
      /\ calls' = [calls EXCEPT ![i] =
           IF ~txValid
           THEN [c EXCEPT !.pc = "failed", !.error = ErrTransaction]
           ELSE SignDigestStart(c, unsignedHash)]
      /\ UNCHANGED <<address, keyId, addressWrites, pure>>

\* signTransaction after its first await (lines 106-123): the from check, after
\* which from is deleted from the request, the construction of the
\* transaction (txValid: Transaction.from accepts the request; unsignedHash:
\* its tx.unsignedHash), then the synchronous part of _signDigest
SignTransactionResume(i, txValid, unsignedHash) ==
  LET c == calls[i]
  IN  /\ c.op = "signTransaction"
      /\ c.pc = "awaitAddress"
      /\ c.addr = "ok"
      /\ calls' = [calls EXCEPT ![i] =
           IF c.from # NoAddress /\ toLowerCase(c.from) # toLowerCase(c.ethAddress)
           THEN [c EXCEPT !.pc = "failed", !.error = ErrFromMismatch]
           ELSE IF ~txValid
           THEN [c EXCEPT !.pc = "failed", !.error = ErrTransaction, !.from = NoAddress]
           ELSE SignDigestStart([c EXCEPT !.from = NoAddress], unsignedHash)]
      /\ UNCHANGED <<address, keyId, addressWrites, pure>>

\* _signDigest after Promise.all (lines 157-158), and the return of its caller
SignDigestResume(i) ==
  LET c == calls[i]
      found == determineCorrectV(c.digest, c.r, c.s, c.ethAddress)
  IN  /\ c.pc = "awaitSign"
      /\ c.sign = "ok"
      /\ c.addr = "ok"
      /\ calls' = [calls EXCEPT ![i] =
           IF found.threw
           THEN [c EXCEPT !.pc = "failed", !.error = ErrNoV]
           ELSE [c EXCEPT !.pc = "done", !.v = found.v,
                          !.ret = SignatureSerialized(c.r, c.s, found.v)]]
      /\ UNCHANGED <<address, keyId, addressWrites, pure>>

\* the caller has its result and every command of the call has been answered:
\* the slot is free for the next call
CallReturn(i) ==
  /\ calls[i].pc \in {"done", "failed"}
  /\ calls[i].sign # "pending"
  /\ calls[i].addr # "pending"
  /\ calls' = [calls EXCEPT ![i] = IdleCall]
  /\ UNCHANGED <<address, keyId, addressWrites, pure>>

Next ==
  \E i \in Calls :
    \/ GetAddressCall(i)
    \/ \E digest \in Digests : SignMessageCall(i, digest)
    \/ \E digest \in Digests : SignTypedDataCall(i, digest)
    \/ \E from \in FromInputs : SignTransactionCall(i, from)
    \/ GetPublicKeyResponse(i)
    \/ SignResponse(i)
    \/ \E txValid \in BOOLEAN, unsignedHash \in Digests :
         SignTransactionResume(i, txValid, unsignedHash)
    \/ SignDigestResume(i)
    \/ CallReturn(i)

Spec == Init /\ [][Next]_vars

------------------------------------------------------------------------------
(* The helpers of types.ts applied on their own *)

\* the spellings of the addresses of the curve's points
AddressSpellings ==
  { computeAddress(q) : q \in 0..(secp256k1N - 1) }
  \cup { toLowerCase(computeAddress(q)) : q \in 0..(secp256k1N - 1) }

PureInputs ==
  { [PureIdle EXCEPT !.fn = "getRsSignature", !.sigR = r, !.sigS = s] :
      r \in 1..MaxR, s \in 1..(secp256k1N - 1) }
  \cup
  { [PureIdle EXCEPT !.fn = "determineCorrectV", !.msg = z, !.r = toHex(r), !.s = toHex(s),
                     !.expected = a] :
      z \in Digests, r \in 1..(secp256k1N - 1), s \in 1..(secp256k1N - 1),
      a \in AddressSpellings }

PureInit ==
  /\ address = NoAddress
  /\ keyId \in Keys
  /\ calls = [i \in Calls |-> IdleCall]
  /\ addressWrites = 0
  /\ pure \in PureInputs

\* getRsSignature applied to the DER of (sigR, sigS)
ApplyGetRsSignature ==
  /\ pure.fn = "getRsSignature"
  /\ ~pure.done
  /\ LET out == getRsSignature(EncodeEcdsaSig(pure.sigR, pure.sigS))
     IN  pure' = [pure EXCEPT !.done = TRUE, !.threw = out.threw, !.r = out.r, !.s = out.s]
  /\ UNCHANGED <<address, keyId, calls, addressWrites>>

\* determineCorrectV applied to (msg, r, s, expected)
ApplyDetermineCorrectV ==
  /\ pure.fn = "determineCorrectV"
  /\ ~pure.done
  /\ LET out == determineCorrectV(pure.msg, pure.r, pure.s, pure.expected)
     IN  pure' = [pure EXCEPT !.done = TRUE, !.threw = out.threw, !.v = out.v]
  /\ UNCHANGED <<address, keyId, calls, addressWrites>>

PureNext == ApplyGetRsSignature \/ ApplyDetermineCorrectV

SpecPure == PureInit /\ [][PureNext]_vars

------------------------------------------------------------------------------
(* Properties *)

\* the address of the signer's key, as ethers computes it from the public point
SignerAddress == computeAddress(PublicKeyPoint(keyId))

\* the calls that run _signDigest
SigningOps == {"signMessage", "signTypedData", "signTransaction"}

\* C1: a signing call that completed used v = 27 or 28, returned a low s, and
\* recoverAddress(digest, r, s, v) is, ignoring case, the address of the
\* signer's key, which is also what getAddress() returned to the call and what
\* the signer has memoized
SignatureRecoversSignerAddress ==
  \A i \in Calls :
    (calls[i].op \in SigningOps /\ calls[i].pc = "done") =>
      /\ calls[i].v \in {27, 28}
      /\ BigIntFromHex(calls[i].s) <= secp256k1N \div 2
      /\ toLowerCase(recoverAddress(calls[i].digest, calls[i].r, calls[i].s, calls[i].v))
           = toLowerCase(SignerAddress)
      /\ toLowerCase(calls[i].ethAddress) = toLowerCase(SignerAddress)
      /\ address = calls[i].ethAddress
      /\ calls[i].ret = SignatureSerialized(calls[i].r, calls[i].s, calls[i].v)

\* C1 witness: signTransaction returned a signature the key made over the
\* digest with a high s, which came back flipped and with v found by recovery
SignedWithFlippedS ==
  \E i \in Calls :
    /\ calls[i].op = "signTransaction"
    /\ calls[i].pc = "done"
    /\ \E k \in 1..(secp256k1N - 1) :
         LET sig == EcdsaSign(keyId, calls[i].digest, k)
         IN  /\ sig.s > secp256k1N \div 2
             /\ calls[i].r = toHex(sig.r)
             /\ calls[i].s = toHex(secp256k1N - sig.s)

\* C2: getRsSignature leaves s <= floor(n/2) alone, turns s > floor(n/2) into
\* n - s, so the s it returns is at most floor(n/2), and the r it returns has
\* the value of the r it was given
LowSNormalization ==
  (pure.fn = "getRsSignature" /\ pure.done) =>
    /\ ~pure.threw
    /\ BigIntFromHex(pure.s) =
         (IF pure.sigS <= secp256k1N \div 2 THEN pure.sigS ELSE secp256k1N - pure.sigS)
    /\ BigIntFromHex(pure.s) <= secp256k1N \div 2
    /\ BigIntFromHex(pure.r) = pure.sigR

\* C2 witness: s = floor(n/2) + 1 was flipped to floor(n/2), next to an r of two hex digits
BoundaryFlipped ==
  /\ pure.fn = "getRsSignature"
  /\ pure.done
  /\ pure.sigS = (secp256k1N \div 2) + 1
  /\ BigIntFromHex(pure.s) = secp256k1N \div 2
  /\ pure.sigR >= 16

\* does candidate v recover the expected address of the applied helper, ignoring case
CandidateMatches(v) ==
  toLowerCase(recoverAddress(pure.msg, pure.r, pure.s, v)) = toLowerCase(pure.expected)

\* C3: determineCorrectV returns 27 when 27 recovers the expected address
\* (ignoring case), else 28 when 28 does, else it throws and returns no v
FirstMatchingCandidate ==
  (pure.fn = "determineCorrectV" /\ pure.done) =>
    IF CandidateMatches(27) THEN ~pure.threw /\ pure.v = 27
    ELSE IF CandidateMatches(28) THEN ~pure.threw /\ pure.v = 28
    ELSE pure.threw /\ pure.v = 0

\* C3 witness: 28 was returned for an expected address spelled in lower case
\* whose checksummed spelling differs
SecondCandidateLowerCase ==
  /\ pure.fn = "determineCorrectV"
  /\ pure.done
  /\ pure.v = 28
  /\ pure.expected = toLowerCase(pure.expected)
  /\ pure.expected # ChecksumAddress(pure.expected)

\* C4 as claimed: this.address is assigned at most once
AddressWrittenAtMostOnce == addressWrites <= 1

\* C4 amended: this.address is assigned only when a getAddress() that found it
\* unset and sent a GetPublicKeyCommand gets its key, once per such call; every
\* assignment stores the address of the key, and an assignment made when the
\* field is already set stores the value it holds
AddressWrittenOncePerMiss ==
  [][ /\ \A i \in Calls :
           (calls[i].addr # "pending" /\ calls'[i].addr = "pending") => address = NoAddress
      /\ (addressWrites' # addressWrites) =>
           /\ addressWrites' = addressWrites + 1
           /\ \E i \in Calls :
                /\ calls[i].addr = "pending"
                /\ calls'[i].addr = "ok"
                /\ \A j \in Calls \ {i} : calls'[j] = calls[j]
           /\ address' = SignerAddress
           /\ address # NoAddress => address' = address
      /\ (addressWrites' = addressWrites) => address' = address
    ]_vars

\* C4 witness: two calls missed the cache and each assigned the field
AddressWrittenTwice == addressWrites = 2

\* C5: every getAddress() that succeeded, on its own or inside a signing call,
\* returned the one address the signer has memoized, and the memoized address,
\* once set, never changes and never becomes unset again
AddressStable ==
  /\ [](\A i \in Calls :
          calls[i].addr = "ok" => (address # NoAddress /\ calls[i].ethAddress = address))
  /\ [][address # NoAddress => address' = address]_vars

\* C5 witness: two getAddress() calls both missed the cache, both fetched the
\* key, and both returned
BothMissedBothReturned ==
  /\ MaxCalls >= 2
  /\ \A i \in 1..2 :
       /\ calls[i].op = "getAddress"
       /\ calls[i].pc = "done"
       /\ calls[i].nGetPk = 1

\* does the request of call i carry a from that is not the signer's address
FromMismatch(i) ==
  /\ calls[i].op = "signTransaction"
  /\ calls[i].from # NoAddress
  /\ toLowerCase(calls[i].from) # toLowerCase(SignerAddress)

\* C6: a signTransaction whose from differs, ignoring case, from the signer's
\* address sends no SignCommand and never returns a signature; once the
\* address is resolved it fails with the mismatch error
MismatchFailsBeforeSigning ==
  \A i \in Calls :
    FromMismatch(i) =>
      /\ calls[i].nSign = 0
      /\ calls[i].sign = "none"
      /\ calls[i].pc \in {"awaitAddress", "failed"}
      /\ (calls[i].pc = "failed" /\ calls[i].addr = "ok") => calls[i].error = ErrFromMismatch
      /\ (calls[i].pc = "failed" /\ calls[i].addr = "failed") => calls[i].error = calls[i].addrError

\* C6 witness: a from in lower case that is another key's address was rejected
MismatchRejected ==
  \E i \in Calls :
    /\ FromMismatch(i)
    /\ calls[i].from = toLowerCase(calls[i].from)
    /\ calls[i].pc = "failed"
    /\ calls[i].error = ErrFromMismatch

\* has _signDigest of call i got past Promise.all
RecoveryRan(i) == calls[i].v # 0 \/ calls[i].error = ErrNoV

\* C7: once _signDigest has started, the SignCommand has been sent and
\* getAddress() has been called, whatever the state of the other; and
\* determineCorrectV has run only with a signature and an address in hand
JoinAfterBoth ==
  \A i \in Calls :
    /\ (calls[i].op \in {"signMessage", "signTypedData"} \/ calls[i].pc = "awaitSign") =>
         (calls[i].sign # "none" /\ calls[i].addr # "none")
    /\ calls[i].sign # "none" => calls[i].addr # "none"
    /\ calls[i].pc = "awaitSign" =>
         (calls[i].sign \in {"pending", "ok"} /\ calls[i].addr \in {"pending", "ok"})
    /\ RecoveryRan(i) =>
         /\ calls[i].sign = "ok"
         /\ calls[i].addr = "ok"
         /\ calls[i].r # <<>>
         /\ calls[i].s # <<>>
         /\ calls[i].ethAddress # NoAddress

\* C7 witness: both commands of one signMessage are in flight at the same time
BothInFlight ==
  \E i \in Calls :
    /\ calls[i].op = "signMessage"
    /\ calls[i].sign = "pending"
    /\ calls[i].addr = "pending"

\* C8: a call sends at most one SignCommand and at most one
\* GetPublicKeyCommand, exactly one SignCommand once _signDigest has started;
\* when one of its commands failed the call has failed with the error of a
\* failed command (of that command when only one failed) and has returned no
\* signature
FailurePropagatesNoRetry ==
  \A i \in Calls :
    /\ calls[i].nSign <= 1
    /\ calls[i].nGetPk <= 1
    /\ (calls[i].sign # "none") <=> (calls[i].nSign = 1)
    /\ (calls[i].op \in {"signMessage", "signTypedData"} \/ calls[i].pc = "awaitSign") =>
         calls[i].nSign = 1
    /\ (calls[i].sign = "failed" \/ calls[i].addr = "failed") =>
         /\ calls[i].pc = "failed"
         /\ calls[i].v = 0
         /\ calls[i].ret = <<>>
         /\ calls[i].error \in
              (IF calls[i].sign = "failed" THEN {calls[i].signError} ELSE {})
              \cup (IF calls[i].addr = "failed" THEN {calls[i].addrError} ELSE {})

\* C8 witness: the SignCommand of a signTypedData was rejected after its
\* GetPublicKeyCommand had succeeded, and the call failed with the rejection
SignRejected ==
  \E i \in Calls :
    /\ calls[i].op = "signTypedData"
    /\ calls[i].pc = "failed"
    /\ calls[i].error = ErrSign
    /\ calls[i].addr = "ok"
    /\ calls[i].nGetPk = 1
    /\ calls[i].nSign = 1

\* the responses without data: the field is absent, or holds no bytes
NoDataResponses == {KmsAbsent, KmsBytes(<<>>)}

\* C9: a response whose PublicKey or Signature is absent or empty makes
\* getAddress() or _rawKmsSign fail with the missing-data error without
\* decoding anything, memoizes no address and yields no signature
MissingDataReported ==
  [][ \A i \in Calls : \A resp \in NoDataResponses :
        /\ GetPublicKeyResponseIs(i, resp) =>
             /\ calls'[i].addr = "failed"
             /\ calls'[i].addrError = ErrNoPublicKey
             /\ ~calls'[i].pkDecoded
             /\ address' = address
        /\ SignResponseIs(i, resp) =>
             /\ calls'[i].sign = "failed"
             /\ calls'[i].signError = ErrNoSignature
             /\ ~calls'[i].sigDecoded
             /\ calls'[i].ret = <<>>
    ]_vars

\* C10: a getAddress() that fails leaves this.address as it was, and the field
\* is never set but to the key's address by a successful one; a call started
\* while the field is unset sends a GetPublicKeyCommand; once the field is
\* set no call sends one
FailureNotCached ==
  /\ [](address \in {NoAddress, SignerAddress} /\ (addressWrites = 0 => address = NoAddress))
  /\ [][ \A i \in Calls :
           /\ (calls[i].addr = "pending" /\ calls'[i].addr = "failed") => address' = address
           /\ (calls[i].pc = "idle" /\ calls'[i].pc # "idle" /\ address = NoAddress) =>
                (calls'[i].addr = "pending" /\ calls'[i].nGetPk = 1)
           /\ address # NoAddress => calls'[i].nGetPk <= calls[i].nGetPk
      ]_vars

\* C10 witness: a getAddress() failed on a key that does not decode, the field
\* stayed unset, and another getAddress() then fetched the key and set it
FailedThenFetched ==
  /\ MaxCalls >= 2
  /\ calls[1].op = "getAddress"
  /\ calls[1].pc = "failed"
  /\ calls[1].addrError = ErrDecode
  /\ calls[2].op = "getAddress"
  /\ calls[2].pc = "done"
  /\ calls[2].nGetPk = 1
  /\ addressWrites = 1
  /\ address = SignerAddress

====
